---- MODULE Spec2Model ----
(***************************************************************************)
(* Authentication subsystem of the Airdrop Journal backend: the User       *)
(* model (lockout, password hashing hook, reset / verification tokens),    *)
(* the auth routes, the protect middleware and the per-endpoint rate       *)
(* limiters.  Every request handler is one action; time is in              *)
(* milliseconds as returned by Date.now().                                 *)
(***************************************************************************)
EXTENDS Integers, FiniteSets, Sequences, TLC

\* ---------------------------------------------------------------- bounds
MaxAccounts == 2
MaxTokens == 3
MaxTicks == 1
MaxSessions == 2
MaxOverLimit == 1
MaxInflight == 2
MaxAirdrops == 2
MaxTasks == 2

\* ------------------------------------------------------- program constants
DefaultResetMinutes == 10
LockThreshold == 5
LockTime == 2 * 60 * 60 * 1000
VerifyExpire == 24 * 60 * 60 * 1000
JwtExpireSec == 7 * 24 * 60 * 60
PwChangedSkew == 1000
LoginWindow == 15 * 60 * 1000
LoginMax == 5
HourWindow == 60 * 60 * 1000
HourMax == 3
UsernameMaxLen == 30
MinPasswordLen == 8
DeletedPrefixLen == 22

\* ------------------------------------------------------------ value sets
Null == 0 - 1
StartTime == 10000
TickStep == 500
Emails == {1, 2}
Usernames == {0, 1, 2}
Passwords == {1, 2}
Clients == {1}
Classes == {"login", "signup", "forgot", "resend"}
ResetExpireEnv == {Null, 10}
Ids == 1..MaxAccounts
Tokens == 1..MaxTokens
AirdropIds == 1..MaxAirdrops
TaskIds == 1..MaxTasks

UsernameLength(u) == IF u = 1 THEN 8 ELSE 9

\* request-body passwords as strings of character classes: lower-case letter,
\* upper-case letter, digit, a symbol listed in the validators' regular
\* expression (@$!%*?&) and any other symbol
Chars == {"lower", "upper", "digit", "listed", "other"}
BodyLengths == {MinPasswordLen - 1, MinPasswordLen}
\* five chosen characters, then the first one repeated up to the length n
Pad(t, n) == t \o [k \in 1..(n - Len(t)) |-> t[1]]
Bodies ==
  {Pad(<<a, b, c, d, e>>, n) :
     a \in {"lower", "other"}, b \in {"upper", "lower"}, c \in {"digit", "lower"},
     d \in {"listed", "other", "lower"}, e \in {"lower", "digit"}, n \in BodyLengths}
\* "Abcdef1!" and "A1bcdef!" by character classes
KnownBodies ==
  {<<"lower", "upper", "digit", "listed", "lower", "lower", "lower", "lower">>,
   <<"lower", "upper", "digit", "listed", "digit", "lower", "lower", "lower">>}

CharCode(ch) ==
  CASE ch = "lower" -> 1 [] ch = "upper" -> 2 [] ch = "digit" -> 3
    [] ch = "listed" -> 4 [] OTHER -> 5

RECURSIVE PasswordCode(_)
\* the plaintext as a number, one base-6 digit per character
PasswordCode(b) == IF b = <<>> THEN 0 ELSE CharCode(Head(b)) + 6 * PasswordCode(Tail(b))

Has(b, ch) == \E k \in 1..Len(b) : b[k] = ch

\* body('password').isLength({ min: 8 }).matches(/^(?=.*[a-z])(?=.*[A-Z])
\* (?=.*\d)(?=.*[@$!%*?&])[A-Za-z\d@$!%*?&]/): the four look-aheads, then one
\* character of the listed classes at the start; nothing follows the class
ValidPassword(b) ==
  /\ Len(b) >= MinPasswordLen
  /\ Has(b, "lower") /\ Has(b, "upper") /\ Has(b, "digit") /\ Has(b, "listed")
  /\ b[1] \in {"lower", "upper", "digit", "listed"}

\* bcrypt.hash / bcrypt.compare: a one-way injective digest of the plaintext
Bcrypt(p) == p + 100
\* crypto.createHash('sha256').update(t).digest('hex')
Sha256(t) == t + 1000

NoSession == [sub |-> 0, iat |-> 0, at |-> 0, role |-> "user"]
NoUser == [exists |-> FALSE, email |-> 0, username |-> 0, password |-> 0,
           role |-> "user", isActive |-> FALSE, isEmailVerified |-> FALSE,
           emailVerificationToken |-> Null, emailVerificationExpire |-> Null,
           passwordResetToken |-> Null, passwordResetExpire |-> Null,
           passwordChangedAt |-> Null, loginAttempts |-> 0,
           lockUntil |-> Null, lastLoginAt |-> Null]
\* a place in the airdrops collection: never used ("free"), a stored document
\* ("live") or a deleted one ("gone", which keeps the owner it had)
NoAirdrop == [life |-> "free", user |-> 0, status |-> "Farming", isDailyTask |-> FALSE]
NoTask == [life |-> "free", user |-> 0, airdrop |-> 0, completed |-> FALSE,
           completedAt |-> Null, isDaily |-> FALSE]
\* request bodies; user = 0, status = "absent", airdrop = 0, completed = Null
\* and completedAt = Null stand for a key the body does not carry
NoBody == [airdrop |-> 0, completed |-> Null, completedAt |-> Null, user |-> 0]

NoMail == [kind |-> "none", to |-> 0, email |-> 0, at |-> Null, used |-> FALSE]

MsgEmailRegistered == "Email is already registered"
MsgUserNotFound == "User not found"
MsgLocked == "Account temporarily locked due to too many failed login attempts"
MsgInvalidCredentials == "Invalid credentials"
MsgLoggedIn == "Logged in successfully"
MsgLoggedOut == "Logged out successfully"
MsgNoPermission == "You do not have permission to perform this action"
MsgRoleUpdated == "User role updated successfully"
MsgProfileUpdated == "Profile updated successfully"
MsgRegistered == "User registered successfully! Please check your email to verify your account."
MsgEmailExists == "User with this email already exists"
MsgUsernameTaken == "Username is already taken"
MsgValidationFailed == "Validation failed"
MsgEmailDuplicateKey == "Email already exists"
MsgUsernameDuplicateKey == "Username already exists"
MsgNoUserWithEmail == "There is no user with that email address"
MsgResetSent == "Password reset token sent to email!"
MsgTokenInvalid == "Token is invalid or has expired"
MsgResetDone == "Password reset successfully"
MsgEmailVerified == "Email verified successfully!"
MsgCurrentIncorrect == "Your current password is incorrect"
MsgPasswordUpdated == "Password updated successfully"
MsgChangeFailed == "Something went wrong changing password"
MsgAlreadyVerified == "Email is already verified"
MsgVerificationSent == "Verification email sent!"
MsgDeactivated == "Account deactivated successfully"
MsgDeactivateFailed == "Failed to deactivate account"
MsgPasswordIncorrect == "Password is incorrect"
MsgMe == "success"
MsgNoLongerExists == "The user belonging to this token does no longer exist."
MsgAccountDeactivated == "Your account has been deactivated. Please contact support."
MsgRecentlyChanged == "User recently changed password! Please log in again."
MsgTokenExpired == "Your token has expired! Please log in again."
MsgTooManyLogin == "Too many login attempts, please try again in 15 minutes"
MsgTooManySignup == "Too many registration attempts, please try again in 1 hour"
MsgTooManyForgot == "Too many password reset requests, please try again in 1 hour"
MsgTooManyResend == "Too many verification email requests, please try again in 1 hour"

VARIABLES now, ticks, env, users, mail, nextToken, sessions, hits, resetAt, resp,
          inflight, airdrops, tasks
vars == <<now, ticks, env, users, mail, nextToken, sessions, hits, resetAt, resp,
          inflight, airdrops, tasks>>

Min(S) == CHOOSE x \in S : \A y \in S : x <= y

\* ------------------------------------------------------------ User model
IsLocked_Inverted(u, t) == u.lockUntil # Null /\ u.lockUntil < t

\* virtual isLocked
IsLocked(u, t) == u.lockUntil # Null /\ u.lockUntil > t

\* methods.comparePassword
ComparePassword(u, candidate) == Bcrypt(candidate) = u.password

\* jwt.sign of { id, email, role }: iat is the issue time in whole seconds;
\* "at" remembers the millisecond at which the token was signed
GenerateAuthToken(id, t) ==
  [sub |-> id, iat |-> t \div 1000, at |-> t, role |-> users[id].role]

\* methods.changedPasswordAfter
ChangedPasswordAfter(u, iat) ==
  IF u.passwordChangedAt # Null
    THEN iat < (u.passwordChangedAt \div 1000)
    ELSE FALSE

HashPasswordOnSave_Ahead(u, plain, t) ==
  [u EXCEPT !.password = Bcrypt(plain), !.passwordChangedAt = t + PwChangedSkew]

\* pre('save') hook when the password path is modified on an existing document
HashPasswordOnSave(u, plain, t) ==
  [u EXCEPT !.password = Bcrypt(plain), !.passwordChangedAt = t - PwChangedSkew]

\* methods.createPasswordResetToken: parseInt of the unset variable is NaN,
\* NaN fails the Date cast and the path keeps its previous value
CreatePasswordResetToken(u, tok, t, e) ==
  [u EXCEPT !.passwordResetToken = Sha256(tok),
            !.passwordResetExpire = IF e = Null THEN @ ELSE t + e * 60 * 1000]

\* methods.createEmailVerificationToken
CreateEmailVerificationToken(u, tok, t) ==
  [u EXCEPT !.emailVerificationToken = Sha256(tok),
            !.emailVerificationExpire = t + VerifyExpire]

\* methods.incLoginAttempts
IncLoginAttempts(u, t) ==
  IF u.lockUntil # Null /\ u.lockUntil < t
    THEN [u EXCEPT !.lockUntil = Null, !.loginAttempts = 1]
    ELSE IF u.loginAttempts + 1 >= LockThreshold /\ ~IsLocked(u, t)
           THEN [u EXCEPT !.loginAttempts = @ + 1, !.lockUntil = t + LockTime]
           ELSE [u EXCEPT !.loginAttempts = @ + 1]

ResetLoginAttempts_KeepLock(u) == [u EXCEPT !.loginAttempts = 0]

\* methods.resetLoginAttempts
ResetLoginAttempts(u) == [u EXCEPT !.loginAttempts = 0, !.lockUntil = Null]

ActiveByEmail_IncludingClosed(e) == {i \in Ids : users[i].exists /\ users[i].email = e}

\* findOne({ email, isActive: true })
ActiveByEmail(e) == {i \in Ids : users[i].exists /\ users[i].email = e /\ users[i].isActive}

GetAuthenticated_CountWhileLocked(e, p, t) ==
  IF ActiveByEmail(e) = {}
    THEN [id |-> 0, ok |-> FALSE, reason |-> MsgUserNotFound, user |-> NoUser]
    ELSE LET i == Min(ActiveByEmail(e))
             u == users[i]
         IN IF IsLocked(u, t)
              THEN [id |-> i, ok |-> FALSE, reason |-> MsgLocked,
                    user |-> IF ComparePassword(u, p) THEN u
                             ELSE [u EXCEPT !.loginAttempts = @ + 1]]
              ELSE IF ComparePassword(u, p)
                     THEN [id |-> i, ok |-> TRUE, reason |-> MsgLoggedIn,
                           user |-> [(IF u.loginAttempts > 0 THEN ResetLoginAttempts(u) ELSE u)
                                       EXCEPT !.lastLoginAt = t]]
                     ELSE [id |-> i, ok |-> FALSE, reason |-> MsgInvalidCredentials,
                           user |-> IncLoginAttempts(u, t)]

\* statics.getAuthenticated: the reason, the account touched and its new value
GetAuthenticated(e, p, t) ==
  IF ActiveByEmail(e) = {}
    THEN [id |-> 0, ok |-> FALSE, reason |-> MsgUserNotFound, user |-> NoUser]
    ELSE LET i == Min(ActiveByEmail(e))
             u == users[i]
         IN IF IsLocked(u, t)
              THEN [id |-> i, ok |-> FALSE, reason |-> MsgLocked, user |-> u]
              ELSE IF ComparePassword(u, p)
                     THEN [id |-> i, ok |-> TRUE, reason |-> MsgLoggedIn,
                           user |-> [(IF u.loginAttempts > 0 THEN ResetLoginAttempts(u) ELSE u)
                                       EXCEPT !.lastLoginAt = t]]
                     ELSE [id |-> i, ok |-> FALSE, reason |-> MsgInvalidCredentials,
                           user |-> IncLoginAttempts(u, t)]

\* ---------------------------------------------------------- rate limiter
LimitWindow(class) == IF class = "login" THEN LoginWindow ELSE HourWindow
LimitMax(class) == IF class = "login" THEN LoginMax ELSE HourMax
WindowOver(class, c) == resetAt[class][c] # Null /\ now >= resetAt[class][c]
CurrentHits(class, c) == IF WindowOver(class, c) THEN 0 ELSE hits[class][c]
Limited_BeforeCount(class, c) == CurrentHits(class, c) > LimitMax(class)

\* the request is counted first and rejected when the count exceeds max
Limited(class, c) == CurrentHits(class, c) + 1 > LimitMax(class)
CanHit(class, c) == CurrentHits(class, c) < LimitMax(class) + MaxOverLimit

Hit_WindowOnly(class, c) ==
  /\ hits' = hits
  /\ resetAt' = [resetAt EXCEPT ![class][c] =
                   IF @ = Null \/ WindowOver(class, c) THEN now + LimitWindow(class) ELSE @]

\* store.increment(key): one synchronous step that opens the window on the
\* first request, adds one and returns the new total
Hit(class, c) ==
  /\ hits' = [hits EXCEPT ![class][c] = CurrentHits(class, c) + 1]
  /\ resetAt' = [resetAt EXCEPT ![class][c] =
                   IF @ = Null \/ WindowOver(class, c) THEN now + LimitWindow(class) ELSE @]

\* ----------------------------------------------------------- responses
\* the paths of the User schema
UserPaths ==
  {"_id", "firstName", "lastName", "email", "username", "password", "avatar", "role",
   "isActive", "isEmailVerified", "emailVerificationToken", "emailVerificationExpire",
   "passwordResetToken", "passwordResetExpire", "passwordChangedAt", "loginAttempts",
   "lockUntil", "lastLoginAt", "preferences", "stats", "createdAt", "updatedAt"}

\* the user object written out by createSendToken
SendTokenFields ==
  {"id", "firstName", "lastName", "email", "username", "avatar", "role",
   "isEmailVerified", "preferences", "stats", "createdAt"}

\* the user object written out by GET /me and GET /profile
MeFields ==
  SendTokenFields \cup {"fullName", "lastLoginAt", "createdAt", "updatedAt", "bio"}

\* the user object written out by PUT /profile
ProfileUpdateFields ==
  {"id", "firstName", "lastName", "fullName", "email", "username", "avatar", "role",
   "preferences", "stats", "updatedAt"}

SelectMinusPassword_Everything == UserPaths

\* .select('-password'): the whole document without the password path
SelectMinusPassword == UserPaths \ {"password"}

\* the account fields present in the body of a response
Payload(op, status) ==
  IF status \notin {200, 201} THEN {}
  ELSE IF op \in {"signup", "login", "reset", "update"} THEN SendTokenFields
  ELSE IF op \in {"me", "profile"} THEN MeFields
  ELSE IF op = "updateProfile" THEN ProfileUpdateFields
  ELSE IF op \in {"listUsers", "getUser", "setRole"} THEN SelectMinusPassword
  ELSE {}

\* a response, with the request data it answers (op, client, email, password,
\* presented token) kept beside it
Response(op, c, e, p, tok, status, message, token) ==
  [op |-> op, client |-> c, email |-> e, password |-> p, presented |-> tok,
   status |-> status, message |-> message, token |-> token,
   payload |-> Payload(op, status)]

\* the clients keep at most MaxSessions of the tokens they were sent
Keep(s) == IF s \in sessions \/ Cardinality(sessions) < MaxSessions
             THEN sessions \cup {s} ELSE sessions

\* ------------------------------------------------------------------ Init
Init ==
  /\ now = StartTime
  /\ ticks = 0
  /\ env \in ResetExpireEnv
  /\ users = [i \in Ids |-> NoUser]
  /\ mail = [t \in Tokens |-> NoMail]
  /\ nextToken = 1
  /\ sessions = {}
  /\ hits = [cl \in Classes |-> [c \in Clients |-> 0]]
  /\ resetAt = [cl \in Classes |-> [c \in Clients |-> Null]]
  /\ resp = Response("none", 0, 0, 0, 0, 0, "", NoSession)
  /\ inflight = {}
  /\ airdrops = [a \in AirdropIds |-> NoAirdrop]
  /\ tasks = [t \in TaskIds |-> NoTask]

\* --------------------------------------------------------------- time
Deadlines ==
  UNION {{users[i].lockUntil, users[i].passwordResetExpire,
          users[i].emailVerificationExpire} : i \in Ids}
    \cup {resetAt[cl][c] : cl \in Classes, c \in Clients}

TickTargets ==
  {now + TickStep} \cup Deadlines

Tick ==
  /\ ticks < MaxTicks
  /\ \E t \in TickTargets : t > now /\ now' = t
  /\ ticks' = ticks + 1
  /\ UNCHANGED <<env, users, mail, nextToken, sessions, hits, resetAt, resp, inflight, airdrops, tasks>>

\* free places among the requests that have read the store and not yet
\* written to it
FreeSlots == (1..MaxInflight) \ {r.slot : r \in inflight}

\* ---------------------------------------------------------- POST /login
\* status and message the handler answers with
LoginResult(e, p, t) ==
  LET r == GetAuthenticated(e, p, t)
  IN [status |-> IF r.ok THEN 200 ELSE 401, message |-> r.reason]

Login(c, e, p) ==
  /\ CanHit("login", c)
  /\ Hit("login", c)
  /\ IF Limited("login", c)
       THEN /\ resp' = Response("login", c, e, p, 0, 429, MsgTooManyLogin, NoSession)
            /\ UNCHANGED <<users, sessions>>
       ELSE LET r == GetAuthenticated(e, p, now)
                s == GenerateAuthToken(r.id, now)
            IN IF r.ok
                 THEN                       /\ users' = [users EXCEPT ![r.id] = r.user]
                      /\ sessions' = Keep(s)
                      /\ resp' = Response("login", c, e, p, 0, LoginResult(e, p, now).status,
                                          LoginResult(e, p, now).message, s)
                 ELSE /\ users' = IF r.id = 0 THEN users ELSE [users EXCEPT ![r.id] = r.user]
                      /\ sessions' = sessions
                      /\ resp' = Response("login", c, e, p, 0, LoginResult(e, p, now).status,
                                          LoginResult(e, p, now).message, NoSession)
  /\ UNCHANGED <<now, ticks, env, mail, nextToken, inflight, airdrops, tasks>>

\* the same handler in two steps, for requests that overlap: the limiter and
\* getAuthenticated's findOne, which hands the handler its own copy of the
\* document ...
LoginLoad(c, e, p) ==
  /\ CanHit("login", c)
  /\ ~Limited("login", c)
  /\ ActiveByEmail(e) # {}
  /\ FreeSlots # {}
  /\ Hit("login", c)
  /\ inflight' = inflight \cup
       {[kind |-> "login", slot |-> Min(FreeSlots), client |-> c, email |-> e,
         username |-> 0, password |-> p, id |-> Min(ActiveByEmail(e)),
         token |-> 0, body |-> NoBody, seen |-> users[Min(ActiveByEmail(e))], at |-> now]}
  /\ UNCHANGED <<now, ticks, env, users, mail, nextToken, sessions, resp, airdrops, tasks>>

\* ... and the rest of getAuthenticated: every test reads the copy (r.seen),
\* every updateOne and the save of lastLoginAt write to the stored document
LoginFinish(r) ==
  /\ r.kind = "login"
  /\ inflight' = inflight \ {r}
  /\ IF IsLocked(r.seen, r.at)
       THEN /\ resp' = Response("login", r.client, r.email, r.password, 0, 401, MsgLocked, NoSession)
            /\ UNCHANGED <<users, sessions>>
       ELSE IF ComparePassword(r.seen, r.password)
         THEN /\ users' = [users EXCEPT ![r.id] =
                             [(IF r.seen.loginAttempts > 0 THEN ResetLoginAttempts(@) ELSE @)
                                EXCEPT !.lastLoginAt = now]]
              /\ sessions' = Keep(GenerateAuthToken(r.id, now))
              /\ resp' = Response("login", r.client, r.email, r.password, 0, 200, MsgLoggedIn,
                                  GenerateAuthToken(r.id, now))
         ELSE /\ users' = [users EXCEPT ![r.id] =
                             IF r.seen.lockUntil # Null /\ r.seen.lockUntil < now
                               THEN [@ EXCEPT !.lockUntil = Null, !.loginAttempts = 1]
                               ELSE IF r.seen.loginAttempts + 1 >= LockThreshold /\ ~IsLocked(r.seen, now)
                                      THEN [@ EXCEPT !.loginAttempts = @ + 1, !.lockUntil = now + LockTime]
                                      ELSE [@ EXCEPT !.loginAttempts = @ + 1]]
              /\ sessions' = sessions
              /\ resp' = Response("login", r.client, r.email, r.password, 0, 401,
                                  MsgInvalidCredentials, NoSession)
  /\ UNCHANGED <<now, ticks, env, mail, nextToken, hits, resetAt, airdrops, tasks>>

\* --------------------------------------------------------- POST /signup
\* findOne({ $or: [{ email }, { username }] })
ExistingFor(e, un) ==
  {i \in Ids : users[i].exists /\ (users[i].email = e \/ (un # 0 /\ users[i].username = un))}
FreeIds == {i \in Ids : ~users[i].exists}

Signup(c, e, un, p) ==
  /\ CanHit("signup", c)
  /\ Hit("signup", c)
  /\ IF Limited("signup", c)
       THEN /\ resp' = Response("signup", c, e, p, 0, 429, MsgTooManySignup, NoSession)
            /\ UNCHANGED <<users, mail, nextToken, sessions>>
       ELSE IF ExistingFor(e, un) # {}
         THEN /\ resp' = Response("signup", c, e, p, 0, 409,
                           IF users[Min(ExistingFor(e, un))].email = e
                             THEN MsgEmailExists ELSE MsgUsernameTaken, NoSession)
              /\ UNCHANGED <<users, mail, nextToken, sessions>>
         ELSE /\ FreeIds # {}
              /\ nextToken <= MaxTokens
              /\ LET i == Min(FreeIds)
                     created == [NoUser EXCEPT !.exists = TRUE, !.email = e, !.username = un,
                                               !.password = Bcrypt(p), !.isActive = TRUE]
                     s == GenerateAuthToken(i, now)
                 IN                     /\ users' = [users EXCEPT ![i] = CreateEmailVerificationToken(created, nextToken, now)]
                    /\ mail' = [mail EXCEPT ![nextToken] = [kind |-> "verify", to |-> i, email |-> e, at |-> now, used |-> FALSE]]
                    /\ nextToken' = nextToken + 1
                    /\ sessions' = Keep(s)
                    /\ resp' = Response("signup", c, e, p, 0, 201, MsgRegistered, s)
  /\ UNCHANGED <<now, ticks, env, inflight, airdrops, tasks>>

\* first half of the handler: the limiter and the findOne for an existing user
SignupFind(c, e, un, p) ==
  /\ CanHit("signup", c)
  /\ Hit("signup", c)
  /\ IF Limited("signup", c)
       THEN /\ resp' = Response("signup", c, e, p, 0, 429, MsgTooManySignup, NoSession)
            /\ UNCHANGED inflight
       ELSE IF ExistingFor(e, un) # {}
         THEN /\ resp' = Response("signup", c, e, p, 0, 409,
                           IF users[Min(ExistingFor(e, un))].email = e
                             THEN MsgEmailExists ELSE MsgUsernameTaken, NoSession)
              /\ UNCHANGED inflight
         ELSE /\ FreeSlots # {}
              /\ inflight' = inflight \cup
                   {[kind |-> "signup", slot |-> Min(FreeSlots), client |-> c,
                     email |-> e, username |-> un, password |-> p, id |-> 0,
                     token |-> 0, body |-> NoBody, seen |-> NoUser, at |-> now]}
              /\ UNCHANGED resp
  /\ UNCHANGED <<now, ticks, env, users, mail, nextToken, sessions, airdrops, tasks>>

DuplicateKey_EmailOnly(e, un) == {i \in Ids : users[i].exists /\ users[i].email = e}

\* the unique indexes on email and on username (sparse): the stored documents,
\* active or not, that an insert of (e, un) collides with
DuplicateKey(e, un) ==
  {i \in Ids : users[i].exists /\ (users[i].email = e \/ (un # 0 /\ users[i].username = un))}

\* second half of the handler: User.create, answered 409 on error code 11000
SignupCreate(r) ==
  /\ r.kind = "signup"
  /\ inflight' = inflight \ {r}
  /\ IF DuplicateKey(r.email, r.username) # {}
       THEN /\ resp' = Response("signup", r.client, r.email, r.password, 0, 409,
                           IF users[Min(DuplicateKey(r.email, r.username))].email = r.email
                             THEN MsgEmailDuplicateKey ELSE MsgUsernameDuplicateKey, NoSession)
            /\ UNCHANGED <<users, mail, nextToken, sessions>>
       ELSE /\ FreeIds # {}
            /\ nextToken <= MaxTokens
            /\ LET i == Min(FreeIds)
                   created == [NoUser EXCEPT !.exists = TRUE, !.email = r.email,
                                             !.username = r.username,
                                             !.password = Bcrypt(r.password), !.isActive = TRUE]
                   s == GenerateAuthToken(i, now)
               IN /\ users' = [users EXCEPT ![i] = CreateEmailVerificationToken(created, nextToken, now)]
                  /\ mail' = [mail EXCEPT ![nextToken] = [kind |-> "verify", to |-> i, email |-> r.email, at |-> now, used |-> FALSE]]
                  /\ nextToken' = nextToken + 1
                  /\ sessions' = Keep(s)
                  /\ resp' = Response("signup", r.client, r.email, r.password, 0, 201, MsgRegistered, s)
  /\ UNCHANGED <<now, ticks, env, hits, resetAt, airdrops, tasks>>

\* a signup in a specification that follows one account: it is taken while
\* no account was ever created, or when it is answered without creating one
FirstSignup(c, e, un, p) ==
  /\ FreeIds = Ids \/ ExistingFor(e, un) # {} \/ Limited("signup", c)
  /\ Signup(c, e, un, p)

\* ------------------------------------------------ POST /forgot-password
\* status and message the handler answers with
ForgotResult(e) ==
  IF ActiveByEmail(e) = {}
    THEN [status |-> 404, message |-> MsgNoUserWithEmail]
    ELSE [status |-> 200, message |-> MsgResetSent]

ForgotPassword(c, e) ==
  /\ CanHit("forgot", c)
  /\ Hit("forgot", c)
  /\ IF Limited("forgot", c)
       THEN /\ resp' = Response("forgot", c, e, 0, 0, 429, MsgTooManyForgot, NoSession)
            /\ UNCHANGED <<users, mail, nextToken>>
       ELSE IF ActiveByEmail(e) = {}
         THEN /\ resp' = Response("forgot", c, e, 0, 0, ForgotResult(e).status,
                                  ForgotResult(e).message, NoSession)
              /\ UNCHANGED <<users, mail, nextToken>>
         ELSE /\ nextToken <= MaxTokens
              /\ LET i == Min(ActiveByEmail(e))
                 IN users' = [users EXCEPT ![i] = CreatePasswordResetToken(@, nextToken, now, env)]
              /\ mail' = [mail EXCEPT ![nextToken] = [kind |-> "reset", to |-> Min(ActiveByEmail(e)), email |-> e, at |-> now, used |-> FALSE]]
              /\ nextToken' = nextToken + 1
              /\ resp' = Response("forgot", c, e, 0, 0, ForgotResult(e).status,
                                  ForgotResult(e).message, NoSession)
  /\ UNCHANGED <<now, ticks, env, sessions, inflight, airdrops, tasks>>

\* ----------------------------------------- PATCH /reset-password/:token
ResetTokenOwners_AnyAccount(tok, t) ==
  {i \in Ids : /\ users[i].exists
               /\ users[i].passwordResetToken = Sha256(tok)
               /\ users[i].passwordResetExpire # Null
               /\ users[i].passwordResetExpire > t}

\* findOne({ passwordResetToken, passwordResetExpire: { $gt: now }, isActive: true })
ResetTokenOwners(tok, t) ==
  {i \in Ids : /\ users[i].exists
               /\ users[i].passwordResetToken = Sha256(tok)
               /\ users[i].passwordResetExpire # Null
               /\ users[i].passwordResetExpire > t
               /\ users[i].isActive}

ConsumeResetToken_KeepToken(u, p, t) == HashPasswordOnSave(u, p, t)

\* the handler's writes on the matched account, saved through the pre-save hook
ConsumeResetToken(u, p, t) ==
  [HashPasswordOnSave(u, p, t) EXCEPT !.passwordResetToken = Null,
                                      !.passwordResetExpire = Null]

ResetPassword(tok, p) ==
  /\ IF ResetTokenOwners(tok, now) = {}
       THEN /\ resp' = Response("reset", 0, 0, p, tok, 400, MsgTokenInvalid, NoSession)
            /\ UNCHANGED <<users, mail, sessions>>
       ELSE LET i == Min(ResetTokenOwners(tok, now))
                s == GenerateAuthToken(i, now)
            IN                /\ users' = [users EXCEPT ![i] = ConsumeResetToken(@, p, now)]
               /\ mail' = [mail EXCEPT ![tok].used = TRUE]
               /\ sessions' = Keep(s)
               /\ resp' = Response("reset", 0, 0, p, tok, 200, MsgResetDone, s)
  /\ UNCHANGED <<now, ticks, env, nextToken, hits, resetAt, inflight, airdrops, tasks>>

\* the same handler in two steps: the findOne ...
ResetFind(tok, p) ==
  /\ FreeSlots # {}
  /\ IF ResetTokenOwners(tok, now) = {}
       THEN /\ resp' = Response("reset", 0, 0, p, tok, 400, MsgTokenInvalid, NoSession)
            /\ inflight' = inflight
       ELSE /\ inflight' = inflight \cup
                 {[kind |-> "reset", slot |-> Min(FreeSlots), client |-> 0, email |-> 0,
                   username |-> 0, password |-> p, id |-> Min(ResetTokenOwners(tok, now)),
                   token |-> tok, body |-> NoBody, seen |-> users[Min(ResetTokenOwners(tok, now))], at |-> now]}
            /\ resp' = resp
  /\ UNCHANGED <<now, ticks, env, users, mail, nextToken, sessions, hits, resetAt, airdrops, tasks>>

\* ... and the save of the document it returned, then createSendToken
ResetSave(r) ==
  /\ r.kind = "reset"
  /\ inflight' = inflight \ {r}
  /\ users' = [users EXCEPT ![r.id] = ConsumeResetToken(@, r.password, now)]
  /\ mail' = [mail EXCEPT ![r.token].used = TRUE]
  /\ sessions' = Keep(GenerateAuthToken(r.id, now))
  /\ resp' = Response("reset", 0, 0, r.password, r.token, 200, MsgResetDone,
                      GenerateAuthToken(r.id, now))
  /\ UNCHANGED <<now, ticks, env, nextToken, hits, resetAt, airdrops, tasks>>

\* -------------------------------------------- POST /verify-email/:token
VerifyTokenOwners(tok, t) ==
  {i \in Ids : /\ users[i].exists
               /\ users[i].emailVerificationToken = Sha256(tok)
               /\ users[i].emailVerificationExpire # Null
               /\ users[i].emailVerificationExpire > t
               /\ users[i].isActive}

\* the handler's writes on the matched account
ConsumeVerifyToken(u) ==
  [u EXCEPT !.isEmailVerified = TRUE, !.emailVerificationToken = Null,
            !.emailVerificationExpire = Null]

VerifyEmail(tok) ==
  /\ IF VerifyTokenOwners(tok, now) = {}
       THEN /\ resp' = Response("verify", 0, 0, 0, tok, 400, MsgTokenInvalid, NoSession)
            /\ UNCHANGED <<users, mail>>
       ELSE LET i == Min(VerifyTokenOwners(tok, now))
            IN /\ users' = [users EXCEPT ![i] = ConsumeVerifyToken(@)]
               /\ mail' = [mail EXCEPT ![tok].used = TRUE]
               /\ resp' = Response("verify", 0, 0, 0, tok, 200, MsgEmailVerified, NoSession)
  /\ UNCHANGED <<now, ticks, env, nextToken, sessions, hits, resetAt, inflight, airdrops, tasks>>

\* ------------------------------------------------------ protect middleware
Protect(s, t) ==
  IF t \div 1000 >= s.iat + JwtExpireSec THEN MsgTokenExpired
  ELSE IF ~users[s.sub].exists THEN MsgNoLongerExists
  ELSE IF ~users[s.sub].isActive THEN MsgAccountDeactivated
  ELSE IF ChangedPasswordAfter(users[s.sub], s.iat) THEN MsgRecentlyChanged
  ELSE "ok"

\* ------------------------------------------------------------- GET /me
GetMe(s) ==
  /\ resp' = IF Protect(s, now) = "ok"
               THEN Response("me", 0, users[s.sub].email, 0, 0, 200, MsgMe, s)
               ELSE Response("me", 0, 0, 0, 0, 401, Protect(s, now), s)
  /\ UNCHANGED <<now, ticks, env, users, mail, nextToken, sessions, hits, resetAt, inflight, airdrops, tasks>>

\* --------------------------------------------------------- POST /logout
Logout_Revoking ==
  /\ resp' = Response("logout", 0, 0, 0, 0, 200, MsgLoggedOut, NoSession)
  /\ users' = [i \in Ids |-> [users[i] EXCEPT !.passwordChangedAt = now + 2 * PwChangedSkew]]
  /\ UNCHANGED <<now, ticks, env, mail, nextToken, sessions, hits, resetAt, inflight, airdrops, tasks>>

\* overwrites the jwt cookie and answers; no middleware, no store access
Logout ==
  /\ resp' = Response("logout", 0, 0, 0, 0, 200, MsgLoggedOut, NoSession)
  /\ UNCHANGED <<now, ticks, env, users, mail, nextToken, sessions, hits, resetAt, inflight, airdrops, tasks>>

\* ---------------------------------------------------- GET /users/profile
GetProfile(s) ==
  /\ resp' = IF Protect(s, now) = "ok"
               THEN Response("profile", 0, users[s.sub].email, 0, 0, 200, MsgMe, s)
               ELSE Response("profile", 0, 0, 0, 0, 401, Protect(s, now), s)
  /\ UNCHANGED <<now, ticks, env, users, mail, nextToken, sessions, hits, resetAt, inflight, airdrops, tasks>>

\* ---------------------------------------------------- PUT /users/profile
UpdateProfile(s, un) ==
  /\ IF Protect(s, now) # "ok"
       THEN /\ resp' = Response("updateProfile", 0, 0, 0, 0, 401, Protect(s, now), s)
            /\ UNCHANGED users
       ELSE IF un # users[s.sub].username /\ DuplicateKey(0, un) \ {s.sub} # {}
         THEN /\ resp' = Response("updateProfile", 0, 0, 0, 0, 409, MsgUsernameTaken, s)
              /\ UNCHANGED users
         ELSE /\ users' = [users EXCEPT ![s.sub].username = un]
              /\ resp' = Response("updateProfile", 0, 0, 0, 0, 200, MsgProfileUpdated, s)
  /\ UNCHANGED <<now, ticks, env, mail, nextToken, sessions, hits, resetAt, inflight, airdrops, tasks>>

\* ------------------------------------------------------ PUT /auth/profile
\* the email part of the handler: the taken-email test, then email and
\* isEmailVerified written on req.user and saved
UpdateAuthProfile(s, e) ==
  /\ IF Protect(s, now) # "ok"
       THEN /\ resp' = Response("authProfile", 0, e, 0, 0, 401, Protect(s, now), s)
            /\ UNCHANGED users
       ELSE IF e # users[s.sub].email /\ DuplicateKey(e, 0) # {}
         THEN /\ resp' = Response("authProfile", 0, e, 0, 0, 400, MsgEmailRegistered, s)
              /\ UNCHANGED users
         ELSE /\ users' = [users EXCEPT ![s.sub].email = e,
                                        ![s.sub].isEmailVerified = FALSE]
              /\ resp' = Response("authProfile", 0, e, 0, 0, 200, MsgProfileUpdated, s)
  /\ UNCHANGED <<now, ticks, env, mail, nextToken, sessions, hits, resetAt, inflight, airdrops, tasks>>

\* ------------------------------------------------------ admin user routes
RestrictTo_TokenClaim(s, roles) == s.role \in roles

\* restrictTo(...roles): the role of req.user, the document protect loaded
RestrictTo(s, roles) == users[s.sub].role \in roles

\* protect and restrictTo('admin'): "ok" or the status and message of the refusal
AdminGate(s) ==
  IF Protect(s, now) # "ok" THEN [status |-> 401, message |-> Protect(s, now)]
  ELSE IF ~RestrictTo(s, {"admin"}) THEN [status |-> 403, message |-> MsgNoPermission]
  ELSE [status |-> 200, message |-> "ok"]

\* GET /users
ListUsers(s) ==
  /\ resp' = IF AdminGate(s).status # 200
               THEN Response("listUsers", 0, 0, 0, 0, AdminGate(s).status, AdminGate(s).message, s)
               ELSE Response("listUsers", 0, 0, 0, 0, 200, MsgMe, s)
  /\ UNCHANGED <<now, ticks, env, users, mail, nextToken, sessions, hits, resetAt, inflight, airdrops, tasks>>

\* GET /users/:id
GetUser(s, id) ==
  /\ resp' = IF AdminGate(s).status # 200
               THEN Response("getUser", 0, 0, 0, 0, AdminGate(s).status, AdminGate(s).message, s)
               ELSE IF ~users[id].exists
                 THEN Response("getUser", 0, 0, 0, 0, 404, MsgUserNotFound, s)
                 ELSE Response("getUser", 0, users[id].email, 0, 0, 200, MsgMe, s)
  /\ UNCHANGED <<now, ticks, env, users, mail, nextToken, sessions, hits, resetAt, inflight, airdrops, tasks>>

\* PATCH /users/:id/role
SetRole(s, id, role) ==
  /\ IF AdminGate(s).status # 200
       THEN /\ resp' = Response("setRole", 0, 0, 0, 0, AdminGate(s).status, AdminGate(s).message, s)
            /\ UNCHANGED users
       ELSE IF ~users[id].exists
         THEN /\ resp' = Response("setRole", 0, 0, 0, 0, 404, MsgUserNotFound, s)
              /\ UNCHANGED users
         ELSE /\ users' = [users EXCEPT ![id].role = role]
              /\ resp' = Response("setRole", 0, users[id].email, 0, 0, 200, MsgRoleUpdated, s)
  /\ UNCHANGED <<now, ticks, env, mail, nextToken, sessions, hits, resetAt, inflight, airdrops, tasks>>

\* ------------------------------------------------ PATCH /update-password
UpdatePassword(s, cur, p) ==
  /\ IF Protect(s, now) # "ok"
       THEN /\ resp' = Response("update", 0, 0, p, 0, 401, Protect(s, now), NoSession)
            /\ UNCHANGED <<users, sessions>>
       ELSE IF ~ComparePassword(users[s.sub], cur)
         THEN /\ resp' = Response("update", 0, 0, p, 0, 401, MsgCurrentIncorrect, NoSession)
              /\ UNCHANGED <<users, sessions>>
         ELSE LET n == GenerateAuthToken(s.sub, now)
              IN /\ users' = [users EXCEPT ![s.sub] = HashPasswordOnSave(@, p, now)]
                 /\ sessions' = Keep(n)
                 /\ resp' = Response("update", 0, 0, p, 0, 200, MsgPasswordUpdated, n)
  /\ UNCHANGED <<now, ticks, env, mail, nextToken, hits, resetAt, inflight, airdrops, tasks>>

\* -------------------------------------------------- PUT /change-password
\* req.user.matchPassword is not a method of the User model: the call throws
\* and the catch block answers 500
ChangePassword(s, cur, p) ==
  /\ resp' = IF Protect(s, now) # "ok"
               THEN Response("change", 0, 0, p, 0, 401, Protect(s, now), NoSession)
               ELSE Response("change", 0, 0, p, 0, 500, MsgChangeFailed, NoSession)
  /\ UNCHANGED <<now, ticks, env, users, mail, nextToken, sessions, hits, resetAt, inflight, airdrops, tasks>>

\* --------------------------------------------- POST /resend-verification
ResendVerification(s, c) ==
  /\ IF Protect(s, now) # "ok"
       THEN /\ resp' = Response("resend", c, 0, 0, 0, 401, Protect(s, now), NoSession)
            /\ UNCHANGED <<users, mail, nextToken, hits, resetAt>>
       ELSE /\ CanHit("resend", c)
            /\ Hit("resend", c)
            /\ IF Limited("resend", c)
                 THEN /\ resp' = Response("resend", c, 0, 0, 0, 429, MsgTooManyResend, NoSession)
                      /\ UNCHANGED <<users, mail, nextToken>>
                 ELSE IF users[s.sub].isEmailVerified
                   THEN /\ resp' = Response("resend", c, 0, 0, 0, 400, MsgAlreadyVerified, NoSession)
                        /\ UNCHANGED <<users, mail, nextToken>>
                   ELSE /\ nextToken <= MaxTokens
                        /\ users' = [users EXCEPT ![s.sub] =
                                       CreateEmailVerificationToken(@, nextToken, now)]
                        /\ mail' = [mail EXCEPT ![nextToken] =
                                      [kind |-> "verify", to |-> s.sub, email |-> users[s.sub].email,
                                       at |-> now, used |-> FALSE]]
                        /\ nextToken' = nextToken + 1
                        /\ resp' = Response("resend", c, 0, 0, 0, 200, MsgVerificationSent, NoSession)
  /\ UNCHANGED <<now, ticks, env, sessions, inflight, airdrops, tasks>>

\* ------------------------------------------------- DELETE /users/account
\* `deleted_${Date.now()}_${value}`
DeletedValue(v, t) == 0 - (t + v)
DeletedUsernameValid(un) == un = 0 \/ DeletedPrefixLen + UsernameLength(un) <= UsernameMaxLen

\* the save is refused by the unique indexes when another stored document
\* already carries the rewritten email or username
DeletedCollides(i, t) ==
  DuplicateKey(DeletedValue(users[i].email, t),
               IF users[i].username = 0 THEN 0 ELSE DeletedValue(users[i].username, t)) \ {i} # {}

DeleteAccount(s, confirm) ==
  /\ IF Protect(s, now) # "ok"
       THEN /\ resp' = Response("delete", 0, 0, confirm, 0, 401, Protect(s, now), NoSession)
            /\ UNCHANGED users
       ELSE IF ~ComparePassword(users[s.sub], confirm)
         THEN /\ resp' = Response("delete", 0, 0, confirm, 0, 401, MsgPasswordIncorrect, NoSession)
              /\ UNCHANGED users
         ELSE IF \/ ~DeletedUsernameValid(users[s.sub].username)
                 \/ DeletedCollides(s.sub, now)
           THEN /\ resp' = Response("delete", 0, 0, confirm, 0, 500, MsgDeactivateFailed, NoSession)
                /\ UNCHANGED users
           ELSE /\ users' = [users EXCEPT ![s.sub].isActive = FALSE,
                                          ![s.sub].email = DeletedValue(@, now),
                                          ![s.sub].username = IF @ = 0 THEN 0 ELSE DeletedValue(@, now)]
                /\ resp' = Response("delete", 0, 0, confirm, 0, 200, MsgDeactivated, NoSession)
  /\ UNCHANGED <<now, ticks, env, mail, nextToken, sessions, hits, resetAt, inflight, airdrops, tasks>>

\* ============================================================ airdrops
\* what the auth handlers' variables are to the airdrop and task handlers
authVars == <<now, ticks, env, users, mail, nextToken, sessions, hits, resetAt, inflight>>

MsgNotLoggedIn == "You are not logged in! Please log in to get access."
MsgAirdropNotFound == "Airdrop not found"
MsgOwnAirdropsOnly == "You can only update your own airdrops"
MsgInvalidAirdropRef == "Invalid airdrop reference"
MsgTaskNotFound == "Task not found"

\* protect in front of a request that may carry no token at all
Authenticated(s) == s # NoSession /\ Protect(s, now) = "ok"
AuthFailure(s) == IF s = NoSession THEN MsgNotLoggedIn ELSE Protect(s, now)

AirdropBodies ==
  [user : {0} \cup Ids, status : {"absent", "Completed"}, isDailyTask : BOOLEAN]
TaskBodies ==
  {b \in [airdrop : {0} \cup AirdropIds, completed : {Null, 0, 1},
          completedAt : {Null, StartTime}, user : {0} \cup Ids] :
     b.completedAt = Null \/ b.completed = Null}

FreeAirdrops == {a \in AirdropIds : airdrops[a].life = "free"}
FreeTasks == {t \in TaskIds : tasks[t].life = "free"}

\* Airdrop.findOne({ _id, user })
OwnAirdrop(a, u) == airdrops[a].life = "live" /\ airdrops[a].user = u
\* Task.findOne({ _id, user })
OwnTask(t, u) == tasks[t].life = "live" /\ tasks[t].user = u

DailyTasksOf(a, u) ==
  {t \in TaskIds : /\ tasks[t].life = "live" /\ tasks[t].airdrop = a
                   /\ tasks[t].user = u /\ tasks[t].isDaily}

\* the tasks collection after createDailyTaskForAirdrop
CreateDailyTaskForAirdrop(a, u) ==
  IF DailyTasksOf(a, u) # {} THEN tasks
  ELSE [tasks EXCEPT ![Min(FreeTasks)] =
          [life |-> "live", user |-> u, airdrop |-> a, completed |-> FALSE,
           completedAt |-> Null, isDaily |-> TRUE]]

\* Task.deleteMany({ airdrop, user, isDaily: true })
RemoveDailyTaskForAirdrop(a, u) ==
  [t \in TaskIds |-> IF t \in DailyTasksOf(a, u) THEN [NoTask EXCEPT !.life = "gone"]
                     ELSE tasks[t]]

\* Task.deleteMany({ airdrop, user })
RemoveAllTasksForAirdrop(a, u) ==
  [t \in TaskIds |-> IF tasks[t].life = "live" /\ tasks[t].airdrop = a /\ tasks[t].user = u
                       THEN [NoTask EXCEPT !.life = "gone"]
                       ELSE tasks[t]]

\* ----------------------------------------------------- POST /airdrops
CreateAirdrop(s, b) ==
  /\ IF ~Authenticated(s)
       THEN /\ resp' = Response("createAirdrop", 0, 0, 0, 0, 401, AuthFailure(s), s)
            /\ UNCHANGED <<airdrops, tasks>>
       ELSE /\ FreeAirdrops # {}
            /\ b.isDailyTask => FreeTasks # {}
            /\ airdrops' = [airdrops EXCEPT ![Min(FreeAirdrops)] =
                              [life |-> "live", user |-> s.sub,
                               status |-> IF b.status = "absent" THEN "Farming" ELSE b.status,
                               isDailyTask |-> b.isDailyTask]]
            /\ tasks' = IF b.isDailyTask
                          THEN CreateDailyTaskForAirdrop(Min(FreeAirdrops), s.sub)
                          ELSE tasks
            /\ resp' = Response("createAirdrop", 0, 0, 0, Min(FreeAirdrops), 201,
                                "Airdrop created successfully", s)
  /\ UNCHANGED authVars

\* ------------------------------------------------- PUT /airdrops/:id
\* findByIdAndUpdate(id, req.body): every key of the body is $set
ApplyAirdropBody(d, b) ==
  [d EXCEPT !.user = IF b.user = 0 THEN @ ELSE b.user,
            !.status = IF b.status = "absent" THEN @ ELSE b.status,
            !.isDailyTask = b.isDailyTask]

UpdateAirdrop(s, a, b) ==
  /\ IF ~Authenticated(s)
       THEN /\ resp' = Response("updateAirdrop", 0, 0, 0, a, 401, AuthFailure(s), s)
            /\ UNCHANGED <<airdrops, tasks>>
       ELSE IF airdrops[a].life # "live"
         THEN /\ resp' = Response("updateAirdrop", 0, 0, 0, a, 404, MsgAirdropNotFound, s)
              /\ UNCHANGED <<airdrops, tasks>>
         ELSE IF airdrops[a].user # s.sub
           THEN /\ resp' = Response("updateAirdrop", 0, 0, 0, a, 403, MsgOwnAirdropsOnly, s)
                /\ UNCHANGED <<airdrops, tasks>>
           ELSE /\ (b.isDailyTask /\ ~airdrops[a].isDailyTask /\ DailyTasksOf(a, s.sub) = {})
                     => FreeTasks # {}
                /\ airdrops' = [airdrops EXCEPT ![a] = ApplyAirdropBody(@, b)]
                /\ tasks' = IF b.isDailyTask /\ ~airdrops[a].isDailyTask
                              THEN CreateDailyTaskForAirdrop(a, s.sub)
                              ELSE IF ~b.isDailyTask /\ airdrops[a].isDailyTask
                                THEN RemoveDailyTaskForAirdrop(a, s.sub)
                                ELSE tasks
                /\ resp' = Response("updateAirdrop", 0, 0, 0, a, 200,
                                    "Airdrop updated successfully", s)
  /\ UNCHANGED authVars

\* ---------------------------------------------- DELETE /airdrops/:id
DeleteAirdrop(s, a) ==
  /\ IF ~Authenticated(s)
       THEN /\ resp' = Response("deleteAirdrop", 0, 0, 0, a, 401, AuthFailure(s), s)
            /\ UNCHANGED <<airdrops, tasks>>
       ELSE IF ~OwnAirdrop(a, s.sub)
         THEN /\ resp' = Response("deleteAirdrop", 0, 0, 0, a, 404, MsgAirdropNotFound, s)
              /\ UNCHANGED <<airdrops, tasks>>
         ELSE /\ tasks' = RemoveAllTasksForAirdrop(a, s.sub)
              /\ airdrops' = [airdrops EXCEPT ![a] =
                                [NoAirdrop EXCEPT !.life = "gone", !.user = s.sub]]
              /\ resp' = Response("deleteAirdrop", 0, 0, 0, a, 200,
                                  "Airdrop and related tasks deleted successfully", s)
  /\ UNCHANGED authVars

\* -------------------------------------- PATCH /airdrops/:id/complete
\* no protect in the chain: whatever token the request carries is not read
CompleteAirdrop(s, a) ==
  /\ IF airdrops[a].life # "live"
       THEN /\ resp' = Response("completeAirdrop", 0, 0, 0, a, 404, MsgAirdropNotFound, s)
            /\ UNCHANGED airdrops
       ELSE /\ airdrops' = [airdrops EXCEPT ![a].status = "Completed"]
            /\ resp' = Response("completeAirdrop", 0, 0, 0, a, 200,
                                "Airdrop marked as completed", s)
  /\ UNCHANGED tasks
  /\ UNCHANGED authVars

\* =============================================================== tasks
\* pre('save') of the Task model; modified: isModified('completed')
TaskPreSave(d, modified, t) ==
  IF ~modified THEN d
  ELSE IF d.completed /\ d.completedAt = Null THEN [d EXCEPT !.completedAt = t]
  ELSE IF ~d.completed THEN [d EXCEPT !.completedAt = Null]
  ELSE d

\* the document made from { ...body, user: req.user.id }
NewTask(b, u) ==
  [life |-> "live", user |-> u, airdrop |-> b.airdrop, completed |-> (b.completed = 1),
   completedAt |-> b.completedAt, isDaily |-> FALSE]

\* Object.keys(req.body).forEach(key => task[key] = req.body[key])
ApplyTaskBody(d, b) ==
  [d EXCEPT !.airdrop = IF b.airdrop = 0 THEN @ ELSE b.airdrop,
            !.completed = IF b.completed = Null THEN @ ELSE (b.completed = 1),
            !.completedAt = IF b.completedAt = Null THEN @ ELSE b.completedAt,
            !.user = IF b.user = 0 THEN @ ELSE b.user]

\* methods.markCompleted and methods.markPending, with their save
MarkCompleted(d, t) == TaskPreSave([d EXCEPT !.completed = TRUE, !.completedAt = t], TRUE, t)
MarkPending(d, t) == TaskPreSave([d EXCEPT !.completed = FALSE, !.completedAt = Null], TRUE, t)

\* ---------------------------------------------------------- POST /tasks
\* first the airdrop reference is looked up ...
CreateTaskCheck(s, b) ==
  /\ Authenticated(s)
  /\ b.airdrop # 0 /\ OwnAirdrop(b.airdrop, s.sub)
  /\ FreeSlots # {}
  /\ inflight' = inflight \cup
       {[kind |-> "task", slot |-> Min(FreeSlots), client |-> 0, email |-> 0,
         username |-> 0, password |-> 0, id |-> s.sub, token |-> 0, body |-> b,
         seen |-> NoUser, at |-> now]}
  /\ UNCHANGED <<now, ticks, env, users, mail, nextToken, sessions, hits, resetAt, resp,
                 airdrops, tasks>>

\* ... then the task is saved
CreateTaskSave(r) ==
  /\ r.kind = "task"
  /\ FreeTasks # {}
  /\ inflight' = inflight \ {r}
  /\ tasks' = [tasks EXCEPT ![Min(FreeTasks)] =
                 TaskPreSave(NewTask(r.body, r.id), r.body.completed # Null, now)]
  /\ resp' = Response("createTask", 0, 0, 0, Min(FreeTasks), 201,
                      "Task created successfully", NoSession)
  /\ UNCHANGED <<now, ticks, env, users, mail, nextToken, sessions, hits, resetAt, airdrops>>

\* the handler as one step
CreateTask(s, b) ==
  /\ IF ~Authenticated(s)
       THEN /\ resp' = Response("createTask", 0, 0, 0, 0, 401, AuthFailure(s), s)
            /\ UNCHANGED tasks
       ELSE IF b.airdrop # 0 /\ ~OwnAirdrop(b.airdrop, s.sub)
         THEN /\ resp' = Response("createTask", 0, 0, 0, 0, 400, MsgInvalidAirdropRef, s)
              /\ UNCHANGED tasks
         ELSE /\ FreeTasks # {}
              /\ tasks' = [tasks EXCEPT ![Min(FreeTasks)] =
                             TaskPreSave(NewTask(b, s.sub), b.completed # Null, now)]
              /\ resp' = Response("createTask", 0, 0, 0, Min(FreeTasks), 201,
                                  "Task created successfully", s)
  /\ UNCHANGED airdrops
  /\ UNCHANGED authVars

\* ----------------------------------------------------- POST /tasks/bulk
\* Task.insertMany of n copies of the body: validation, no save middleware
BulkCreateTasks(s, b, n) ==
  /\ IF ~Authenticated(s)
       THEN /\ resp' = Response("bulkTasks", 0, 0, 0, 0, 401, AuthFailure(s), s)
            /\ UNCHANGED tasks
       ELSE IF b.airdrop # 0 /\ ~OwnAirdrop(b.airdrop, s.sub)
         THEN /\ resp' = Response("bulkTasks", 0, 0, 0, 0, 400, MsgInvalidAirdropRef, s)
              /\ UNCHANGED tasks
         ELSE /\ Cardinality(FreeTasks) >= n
              /\ \E T \in SUBSET FreeTasks :
                   /\ Cardinality(T) = n
                   /\ \A t \in T, f \in FreeTasks \ T : t < f
                   /\ tasks' = [t \in TaskIds |-> IF t \in T THEN NewTask(b, s.sub) ELSE tasks[t]]
              /\ resp' = Response("bulkTasks", 0, 0, 0, n, 201, "tasks created successfully", s)
  /\ UNCHANGED airdrops
  /\ UNCHANGED authVars

\* ------------------------------------------------------- PUT /tasks/:id
UpdateTask(s, t, b) ==
  /\ IF ~Authenticated(s)
       THEN /\ resp' = Response("updateTask", 0, 0, 0, t, 401, AuthFailure(s), s)
            /\ UNCHANGED tasks
       ELSE IF ~OwnTask(t, s.sub)
         THEN /\ resp' = Response("updateTask", 0, 0, 0, t, 404, MsgTaskNotFound, s)
              /\ UNCHANGED tasks
         ELSE IF b.airdrop # 0 /\ b.airdrop # tasks[t].airdrop /\ ~OwnAirdrop(b.airdrop, s.sub)
           THEN /\ resp' = Response("updateTask", 0, 0, 0, t, 400, MsgInvalidAirdropRef, s)
                /\ UNCHANGED tasks
           ELSE /\ tasks' = [tasks EXCEPT ![t] =
                               TaskPreSave(ApplyTaskBody(@, b),
                                           ApplyTaskBody(@, b).completed # @.completed, now)]
                /\ resp' = Response("updateTask", 0, 0, 0, t, 200, "Task updated successfully", s)
  /\ UNCHANGED airdrops
  /\ UNCHANGED authVars

\* ---------------------------------------------- PATCH /tasks/:id/toggle
ToggleTask(s, t) ==
  /\ IF ~Authenticated(s)
       THEN /\ resp' = Response("toggleTask", 0, 0, 0, t, 401, AuthFailure(s), s)
            /\ UNCHANGED tasks
       ELSE IF ~OwnTask(t, s.sub)
         THEN /\ resp' = Response("toggleTask", 0, 0, 0, t, 404, MsgTaskNotFound, s)
              /\ UNCHANGED tasks
         ELSE /\ tasks' = [tasks EXCEPT ![t] = IF @.completed THEN MarkPending(@, now)
                                                ELSE MarkCompleted(@, now)]
              /\ resp' = Response("toggleTask", 0, 0, 0, t, 200,
                                  IF tasks[t].completed THEN "Task marked as pending"
                                  ELSE "Task marked as completed", s)
  /\ UNCHANGED airdrops
  /\ UNCHANGED authVars

\* ---------------------------------------------------- DELETE /tasks/:id
DeleteTask(s, t) ==
  /\ IF ~Authenticated(s)
       THEN /\ resp' = Response("deleteTask", 0, 0, 0, t, 401, AuthFailure(s), s)
            /\ UNCHANGED tasks
       ELSE IF ~OwnTask(t, s.sub)
         THEN /\ resp' = Response("deleteTask", 0, 0, 0, t, 404, MsgTaskNotFound, s)
              /\ UNCHANGED tasks
         ELSE /\ tasks' = [tasks EXCEPT ![t] = [NoTask EXCEPT !.life = "gone"]]
              /\ resp' = Response("deleteTask", 0, 0, 0, t, 200, "Task deleted successfully", s)
  /\ UNCHANGED airdrops
  /\ UNCHANGED authVars

\* ------------------------------------ validators in front of the handlers
\* registerLimiter, validateSignup, handleValidationErrors, handler
ValidatedSignup(c, e, b) ==
  IF ~Limited("signup", c) /\ ~ValidPassword(b)
    THEN /\ CanHit("signup", c)
         /\ Hit("signup", c)
         /\ resp' = Response("signup", c, e, PasswordCode(b), 0, 400, MsgValidationFailed, NoSession)
         /\ UNCHANGED <<now, ticks, env, users, mail, nextToken, sessions, inflight, airdrops, tasks>>
    ELSE Signup(c, e, 0, PasswordCode(b))

\* validateResetPassword, handleValidationErrors, handler
ValidatedResetPassword(tok, b) ==
  IF ~ValidPassword(b)
    THEN /\ resp' = Response("reset", 0, 0, PasswordCode(b), tok, 400, MsgValidationFailed, NoSession)
         /\ UNCHANGED <<now, ticks, env, users, mail, nextToken, sessions, hits, resetAt, inflight, airdrops, tasks>>
    ELSE ResetPassword(tok, PasswordCode(b))

\* protect, the newPassword validators, handleValidationErrors, handler
ValidatedUpdatePassword(s, cur, b) ==
  IF Protect(s, now) = "ok" /\ ~ValidPassword(b)
    THEN /\ resp' = Response("update", 0, 0, PasswordCode(b), 0, 400, MsgValidationFailed, NoSession)
         /\ UNCHANGED <<now, ticks, env, users, mail, nextToken, sessions, hits, resetAt, inflight, airdrops, tasks>>
    ELSE UpdatePassword(s, PasswordCode(cur), PasswordCode(b))

\* ------------------------------------------------------- specifications
\* lockout and rate limiting on the login path
NextLockout ==
  \/ Tick
  \/ \E c \in Clients, e \in Emails, p \in Passwords : FirstSignup(c, e, 0, p)
  \/ \E c \in Clients, e \in Emails, p \in Passwords : Login(c, e, p)
SpecLockout == Init /\ [][NextLockout]_vars

\* reset and verification token life cycle
NextTokens ==
  \/ Tick
  \/ \E c \in Clients : FirstSignup(c, 1, 0, 1)
  \/ \E c \in Clients : ForgotPassword(c, 1)
  \/ \E tok \in Tokens : ResetPassword(tok, 2)
  \/ \E tok \in Tokens : VerifyEmail(tok)
  \/ \E s \in sessions, c \in Clients : ResendVerification(s, c)
  \/ \E s \in sessions, p \in Passwords : DeleteAccount(s, p)
SpecTokens == Init /\ [][NextTokens]_vars

\* overlapping reset-password requests
NextResetRace ==
  \/ \E c \in Clients : FirstSignup(c, 1, 0, 1)
  \/ \E c \in Clients : ForgotPassword(c, 1)
  \/ \E tok \in Tokens, p \in Passwords : ResetFind(tok, p)
  \/ \E r \in inflight : ResetSave(r)
SpecResetRace == Init /\ [][NextResetRace]_vars

\* closed accounts: every way in, tried with the stored (rewritten) email
StoredEmails == {users[i].email : i \in {j \in Ids : users[j].exists}}

NextClosed ==
  \/ \E c \in Clients : Signup(c, 1, 0, 1)
  \/ \E c \in Clients, e \in StoredEmails : Login(c, e, 1)
  \/ \E c \in Clients, e \in StoredEmails : ForgotPassword(c, e)
  \/ \E tok \in Tokens : ResetPassword(tok, 1)
  \/ \E tok \in Tokens : VerifyEmail(tok)
  \/ \E s \in sessions : GetMe(s)
  \/ \E s \in sessions : DeleteAccount(s, 1)
SpecClosed == Init /\ [][NextClosed]_vars

\* the session token handed out by a password change
NextFresh ==
  \/ Tick
  \/ \E c \in Clients : FirstSignup(c, 1, 0, 1)
  \/ \E c \in Clients : ForgotPassword(c, 1)
  \/ \E tok \in Tokens, p \in Passwords : ResetPassword(tok, p)
  \/ \E s \in sessions, cur \in Passwords, p \in Passwords : UpdatePassword(s, cur, p)
  \/ \E s \in sessions : GetMe(s)
SpecFresh == Init /\ [][NextFresh]_vars

\* email verification against email changes
NextVerify ==
  \/ Tick
  \/ \E c \in Clients : FirstSignup(c, 1, 0, 1)
  \/ \E tok \in Tokens : VerifyEmail(tok)
  \/ \E s \in sessions, c \in Clients : ResendVerification(s, c)
  \/ \E s \in sessions, e \in Emails : UpdateAuthProfile(s, e)
SpecVerify == Init /\ [][NextVerify]_vars

\* requests with a session token or with none
Callers == sessions \cup {NoSession}

\* bodies that carry nothing but the keys a specification is about
PlainTaskBodies == {b \in TaskBodies : b.completed = Null /\ b.completedAt = Null}

\* the airdrop routes, called by two accounts and by nobody
NextAirdrops ==
  \/ \E c \in Clients, e \in Emails : ActiveByEmail(e) = {} /\ Signup(c, e, 0, 1)
  \/ \E s \in Callers, b \in AirdropBodies : b.user = 0 /\ CreateAirdrop(s, b)
  \/ \E s \in Callers, a \in AirdropIds, b \in AirdropBodies :
        b.user = 0 /\ UpdateAirdrop(s, a, b)
  \/ \E s \in Callers, a \in AirdropIds : DeleteAirdrop(s, a)
  \/ \E s \in Callers, a \in AirdropIds : CompleteAirdrop(s, a)
SpecAirdrops == Init /\ [][NextAirdrops]_vars

\* the routes that write the user field of a record
NextOwner ==
  \/ \E c \in Clients, e \in Emails : ActiveByEmail(e) = {} /\ Signup(c, e, 0, 1)
  \/ \E s \in Callers, b \in AirdropBodies :
        b.status = "absent" /\ ~b.isDailyTask /\ CreateAirdrop(s, b)
  \/ \E s \in Callers, a \in AirdropIds, b \in AirdropBodies :
        b.status = "absent" /\ ~b.isDailyTask /\ UpdateAirdrop(s, a, b)
  \/ \E s \in Callers, b \in PlainTaskBodies : b.airdrop = 0 /\ CreateTask(s, b)
  \/ \E s \in Callers, b \in PlainTaskBodies, n \in 1..MaxTasks :
        b.airdrop = 0 /\ BulkCreateTasks(s, b, n)
  \/ \E s \in Callers, t \in TaskIds, b \in PlainTaskBodies :
        b.airdrop = 0 /\ UpdateTask(s, t, b)
SpecOwner == Init /\ [][NextOwner]_vars

\* the task routes of one account
NextTasks ==
  \/ Tick
  \/ \E c \in Clients : FirstSignup(c, 1, 0, 1)
  \/ \E s \in Callers, b \in TaskBodies :
        b.airdrop = 0 /\ b.user = 0 /\ CreateTask(s, b)
  \/ \E s \in Callers, b \in TaskBodies, n \in 1..MaxTasks :
        b.airdrop = 0 /\ b.user = 0 /\ BulkCreateTasks(s, b, n)
  \/ \E s \in Callers, t \in TaskIds, b \in TaskBodies :
        b.airdrop = 0 /\ b.user = 0 /\ UpdateTask(s, t, b)
  \/ \E s \in Callers, t \in TaskIds : ToggleTask(s, t)
  \/ \E s \in Callers, t \in TaskIds : DeleteTask(s, t)
SpecTasks == Init /\ [][NextTasks]_vars

\* an airdrop deleted while a task for it is being created
NextOrphan ==
  \/ \E c \in Clients : FirstSignup(c, 1, 0, 1)
  \/ \E s \in Callers, b \in AirdropBodies :
        b.user = 0 /\ b.status = "absent" /\ CreateAirdrop(s, b)
  \/ \E s \in Callers, b \in PlainTaskBodies : b.user = 0 /\ CreateTaskCheck(s, b)
  \/ \E r \in inflight : CreateTaskSave(r)
  \/ \E s \in Callers, b \in PlainTaskBodies : b.user = 0 /\ CreateTask(s, b)
  \/ \E s \in Callers, a \in AirdropIds : DeleteAirdrop(s, a)
SpecOrphan == Init /\ [][NextOrphan]_vars

\* session tokens against password changes
NextSession ==
  \/ Tick
  \/ \E c \in Clients, e \in Emails, un \in Usernames, p \in Passwords : FirstSignup(c, e, un, p)
  \/ \E s \in sessions : GetMe(s)
  \/ Logout
  \/ \E s \in sessions, cur \in Passwords, p \in Passwords : UpdatePassword(s, cur, p)
  \/ \E s \in sessions, cur \in Passwords, p \in Passwords : ChangePassword(s, cur, p)
  \/ \E s \in sessions, p \in Passwords : DeleteAccount(s, p)
SpecSession == Init /\ [][NextSession]_vars

\* signup requests racing each other, and account closure
NextSignup ==
  \/ \E c \in Clients, e \in Emails, un \in {0, 1} : Signup(c, e, un, 1)
  \/ \E c \in Clients, e \in Emails, un \in {0, 1} : SignupFind(c, e, un, 1)
  \/ \E r \in inflight : SignupCreate(r)
  \/ \E s \in sessions : DeleteAccount(s, 1)
SpecSignup == Init /\ [][NextSignup]_vars

\* the password validators in front of signup, reset and update
NextPolicy ==
  \/ \E c \in Clients, b \in Bodies : ValidatedSignup(c, 1, b)
  \/ \E tok \in Tokens, b \in Bodies : ValidatedResetPassword(tok, b)
  \/ \E s \in sessions, cur \in KnownBodies, b \in Bodies : ValidatedUpdatePassword(s, cur, b)
SpecPolicy == Init /\ [][NextPolicy]_vars

\* the four rate-limited endpoints
NextLimiter ==
  \/ Tick
  \/ \E c \in Clients : FirstSignup(c, 1, 0, 1)
  \/ \E c \in Clients : Login(c, 2, 1)
  \/ \E c \in Clients : ForgotPassword(c, 2)
  \/ \E tok \in Tokens : VerifyEmail(tok)
  \/ \E s \in sessions, c \in Clients : ResendVerification(s, c)
SpecLimiter == Init /\ [][NextLimiter]_vars

\* a store in which the operator has made the first account an admin: role
\* defaults to 'user' and only an admin can change a role through the API
InitAdmin ==
  /\ now = StartTime
  /\ ticks = 0
  /\ env \in ResetExpireEnv
  /\ users = [i \in Ids |->
               IF i = 1
                 THEN [NoUser EXCEPT !.exists = TRUE, !.email = 1, !.password = Bcrypt(1),
                                     !.role = "admin", !.isActive = TRUE,
                                     !.isEmailVerified = TRUE]
                 ELSE NoUser]
  /\ mail = [t \in Tokens |-> NoMail]
  /\ nextToken = 1
  /\ sessions = {}
  /\ hits = [cl \in Classes |-> [c \in Clients |-> 0]]
  /\ resetAt = [cl \in Classes |-> [c \in Clients |-> Null]]
  /\ resp = Response("none", 0, 0, 0, 0, 0, "", NoSession)
  /\ inflight = {}
  /\ airdrops = [a \in AirdropIds |-> NoAirdrop]
  /\ tasks = [t \in TaskIds |-> NoTask]

\* roles and the admin routes
NextAdmin ==
  \/ \E c \in Clients : Signup(c, 2, 1, 1)
  \/ \E c \in Clients, e \in Emails : Login(c, e, 1)
  \/ \E s \in sessions : ListUsers(s)
  \/ \E s \in sessions, id \in Ids : GetUser(s, id)
  \/ \E s \in sessions, id \in Ids, role \in {"user", "admin"} : SetRole(s, id, role)
SpecAdmin == InitAdmin /\ [][NextAdmin]_vars

\* the routes that answer with account data
NextPayload ==
  \/ \E c \in Clients : Signup(c, 2, 1, 1)
  \/ \E c \in Clients : Login(c, 1, 1)
  \/ \E c \in Clients : ForgotPassword(c, 2)
  \/ \E tok \in Tokens : ResetPassword(tok, 2)
  \/ \E s \in sessions : UpdatePassword(s, 1, 2)
  \/ \E s \in sessions : GetMe(s)
  \/ \E s \in sessions : GetProfile(s)
  \/ \E s \in sessions : UpdateProfile(s, 1)
  \/ \E s \in sessions : ListUsers(s)
  \/ \E s \in sessions : GetUser(s, 2)
  \/ \E s \in sessions : SetRole(s, 2, "admin")
SpecPayload == InitAdmin /\ [][NextPayload]_vars

\* logins on one account that overlap
NextRace ==
  \/ Tick
  \/ \E c \in Clients : FirstSignup(c, 1, 0, 1)
  \/ \E c \in Clients, p \in Passwords : LoginLoad(c, 1, p)
  \/ \E r \in inflight : LoginFinish(r)
SpecRace == Init /\ [][NextRace]_vars

\* ------------------------------------------------------------------ claims
OwnerOf(e) == Min(ActiveByEmail(e))

\* C1: counting from an open account, every wrong password adds one failed
\* attempt and the fifth sets lockUntil = now + 2 hours; from then on a login
\* with the correct password made strictly before lockUntil is rejected as
\* locked, issues no token and changes nothing
C1_LockedUntilElapsed ==
  [][\A c \in Clients, e \in Emails, p \in Passwords :
       (Login(c, e, p) /\ resp'.status # 429 /\ ActiveByEmail(e) # {})
         => LET i == OwnerOf(e)
                u == users[i]
            IN /\ (u.lockUntil = Null /\ u.password # Bcrypt(p))
                    => /\ users'[i].loginAttempts = u.loginAttempts + 1
                       /\ users'[i].lockUntil =
                            IF u.loginAttempts + 1 >= LockThreshold THEN now + LockTime ELSE Null
               /\ (u.loginAttempts >= LockThreshold /\ u.lockUntil # Null
                   /\ now < u.lockUntil /\ u.password = Bcrypt(p))
                    => /\ resp'.status = 401
                       /\ resp'.message = MsgLocked
                       /\ resp'.token = NoSession
                       /\ sessions' = sessions
                       /\ users' = users]_vars

\* a login with the correct password has just been rejected as locked, after
\* five failures and before lockUntil
C1_Witness ==
  \E i \in Ids :
    /\ users[i].exists /\ users[i].isActive
    /\ resp.op = "login" /\ resp.email = users[i].email
    /\ users[i].password = Bcrypt(resp.password)
    /\ resp.status = 401 /\ resp.message = MsgLocked
    /\ users[i].loginAttempts = LockThreshold
    /\ now < users[i].lockUntil

\* C2: a login with the correct password at a time t >= lockUntil (t = lockUntil
\* included) succeeds with no unlock step, and leaves failedAttempts = 0 and
\* lockUntil cleared
C2_UnlocksAtLockUntil ==
  [][\A c \in Clients, e \in Emails, p \in Passwords :
       (Login(c, e, p) /\ resp'.status # 429 /\ ActiveByEmail(e) # {})
         => LET i == OwnerOf(e)
                u == users[i]
            IN (u.lockUntil # Null /\ now >= u.lockUntil /\ u.password = Bcrypt(p))
                 => /\ resp'.status = 200
                    /\ resp'.token.sub = i
                    /\ users'[i].loginAttempts = 0
                    /\ users'[i].lockUntil = Null]_vars

\* the first login of a new limiter window, made at the very instant the lock
\* set at StartTime ends, has succeeded and cleared the lockout state
C2_Witness ==
  \E i \in Ids :
    /\ users[i].exists /\ users[i].isActive
    /\ resp.op = "login" /\ resp.email = users[i].email /\ resp.status = 200
    /\ now = StartTime + LockTime
    /\ hits["login"][resp.client] = 1
    /\ users[i].lastLoginAt = now
    /\ users[i].loginAttempts = 0
    /\ users[i].lockUntil = Null

\* C3 as stated: the 6th login of one client inside the window, correct
\* password, after its 5 wrong-password logins locked the account, is answered
\* 401 AccountLocked
C3_SixthIsAccountLocked ==
  (/\ resp.op = "login"
   /\ hits["login"][resp.client] = LoginMax + 1
   /\ ActiveByEmail(resp.email) # {}
   /\ users[OwnerOf(resp.email)].password = Bcrypt(resp.password)
   /\ users[OwnerOf(resp.email)].loginAttempts = LockThreshold
   /\ now < users[OwnerOf(resp.email)].lockUntil)
    => (resp.status = 401 /\ resp.message = MsgLocked)

\* C3 amended: a login sent by a client that already made 5 login requests in
\* the current window is answered 429 by the limiter and never reaches the
\* handler: no success, no token, no change to any account
C3_SixthIsRateLimited ==
  [][\A c \in Clients, e \in Emails, p \in Passwords :
       (/\ Login(c, e, p)
        /\ hits["login"][c] >= LoginMax
        /\ now < resetAt["login"][c])
         => /\ resp'.status = 429
            /\ resp'.message = MsgTooManyLogin
            /\ resp'.token = NoSession
            /\ users' = users
            /\ sessions' = sessions]_vars

\* the 6th login of the window carried the correct password of the account the
\* five before it locked, and was answered 429
C3_Witness ==
  /\ resp.op = "login" /\ resp.status = 429
  /\ hits["login"][resp.client] = LoginMax + 1
  /\ ActiveByEmail(resp.email) # {}
  /\ users[OwnerOf(resp.email)].password = Bcrypt(resp.password)
  /\ users[OwnerOf(resp.email)].loginAttempts = LockThreshold
  /\ now < users[OwnerOf(resp.email)].lockUntil

\* C4: a session token issued before the account's latest password change
\* (passwordChangedAt + 1 s is the instant of that change) is rejected by
\* protect, whatever its issue time
C4_OldTokensRejected ==
  \A s \in sessions :
    (/\ users[s.sub].passwordChangedAt # Null
     /\ s.at < users[s.sub].passwordChangedAt + PwChangedSkew)
      => Protect(s, now) # "ok"

\* a newer token of the same kind was issued to the same account
Superseded(tok) ==
  \E t2 \in Tokens :
    t2 > tok /\ mail[t2].kind = mail[tok].kind /\ mail[t2].to = mail[tok].to

InvalidTokenReply(r) ==
  r.status = 400 /\ r.message = MsgTokenInvalid /\ r.token = NoSession

\* C5: once reset-password (resp. verify-email) has succeeded with a token,
\* every later presentation of that token is answered 400 invalid-or-expired
\* and changes no account and issues no session
C5_SingleUse ==
  [][/\ \A tok \in Tokens, p \in Passwords :
          (ResetPassword(tok, p) /\ mail[tok].kind = "reset" /\ mail[tok].used)
            => InvalidTokenReply(resp') /\ users' = users /\ sessions' = sessions
     /\ \A tok \in Tokens :
          (VerifyEmail(tok) /\ mail[tok].kind = "verify" /\ mail[tok].used)
            => InvalidTokenReply(resp') /\ users' = users /\ sessions' = sessions]_vars

\* a reset token that had already been consumed was presented again and refused
C5_Witness ==
  /\ resp.op = "reset" /\ resp.status = 400
  /\ mail[resp.presented].kind = "reset"
  /\ mail[resp.presented].used

\* tokens of one kind issued to account i that could still be consumed
Outstanding(kind, i) ==
  {tok \in Tokens :
     /\ mail[tok].kind = kind /\ mail[tok].to = i /\ ~mail[tok].used
     /\ Sha256(tok) = IF kind = "reset" THEN users[i].passwordResetToken
                                        ELSE users[i].emailVerificationToken}

\* C6: an account never holds more than one outstanding token of a kind; a
\* token superseded by a newer one of its kind is refused, and the newest one
\* is accepted while it has not expired (the reset lifetime being
\* PASSWORD_RESET_EXPIRE minutes, ten when unset; the verification lifetime 24 h)
C6_NewTokenReplacesOld ==
  /\ [](\A i \in Ids : /\ Cardinality(Outstanding("reset", i)) <= 1
                       /\ Cardinality(Outstanding("verify", i)) <= 1)
  /\ [][/\ \A tok \in Tokens, p \in Passwords :
             (ResetPassword(tok, p) /\ mail[tok].kind = "reset")
               => /\ Superseded(tok)
                       => InvalidTokenReply(resp') /\ users' = users
                  /\ (/\ ~Superseded(tok) /\ ~mail[tok].used
                      /\ users[mail[tok].to].isActive
                      /\ now < mail[tok].at
                               + (IF env = Null THEN DefaultResetMinutes ELSE env) * 60 * 1000)
                       => /\ resp'.status = 200
                          /\ resp'.token.sub = mail[tok].to
                          /\ users'[mail[tok].to].password = Bcrypt(p)
        /\ \A tok \in Tokens :
             (VerifyEmail(tok) /\ mail[tok].kind = "verify")
               => /\ Superseded(tok)
                       => InvalidTokenReply(resp') /\ users' = users
                  /\ (/\ ~Superseded(tok) /\ ~mail[tok].used
                      /\ users[mail[tok].to].isActive
                      /\ now < mail[tok].at + VerifyExpire)
                       => /\ resp'.status = 200
                          /\ users'[mail[tok].to].isEmailVerified]_vars

\* C7: forgot-password answers the same status and body whether or not an
\* active account has the email
C7_SameForgotReply ==
  \A e1 \in Emails, e2 \in Emails :
    (ActiveByEmail(e1) = {} /\ ActiveByEmail(e2) # {})
      => ForgotResult(e1) = ForgotResult(e2)

\* C9: a reset or verification token that matches no stored hash, whose
\* stored expiry is absent or not in the future, or whose account is inactive
\* is answered with the same 400 invalid-or-expired reply, and nothing changes
C9_TokenFailuresIdentical ==
  [][/\ \A tok \in Tokens, p \in Passwords :
          (/\ ResetPassword(tok, p)
           /\ \A i \in Ids :
                \/ ~users[i].exists
                \/ users[i].passwordResetToken # Sha256(tok)
                \/ ~(users[i].passwordResetExpire > now)
                \/ ~users[i].isActive)
            => /\ resp' = Response("reset", 0, 0, p, tok, 400, MsgTokenInvalid, NoSession)
               /\ users' = users /\ sessions' = sessions
     /\ \A tok \in Tokens :
          (/\ VerifyEmail(tok)
           /\ \A i \in Ids :
                \/ ~users[i].exists
                \/ users[i].emailVerificationToken # Sha256(tok)
                \/ ~(users[i].emailVerificationExpire > now)
                \/ ~users[i].isActive)
            => /\ resp' = Response("verify", 0, 0, 0, tok, 400, MsgTokenInvalid, NoSession)
               /\ users' = users /\ sessions' = sessions]_vars

\* a reset token whose hash is stored, unexpired, on a deactivated account was
\* presented and refused
C9_Witness ==
  /\ resp.op = "reset" /\ resp.status = 400 /\ resp.message = MsgTokenInvalid
  /\ \E i \in Ids : /\ users[i].exists /\ ~users[i].isActive
                    /\ users[i].passwordResetToken = Sha256(resp.presented)
                    /\ users[i].passwordResetExpire > now

\* C10: with PASSWORD_RESET_EXPIRE unset the reset token lives ten minutes:
\* the newest unused token of an active account is accepted strictly before
\* issue time + 10 min and refused from then on
C10_DefaultTenMinutes ==
  [][\A tok \in Tokens, p \in Passwords :
       (/\ ResetPassword(tok, p)
        /\ env = Null
        /\ mail[tok].kind = "reset" /\ ~mail[tok].used /\ ~Superseded(tok)
        /\ users[mail[tok].to].isActive)
         => IF now < mail[tok].at + DefaultResetMinutes * 60 * 1000
              THEN resp'.status = 200
              ELSE InvalidTokenReply(resp')]_vars

\* C8: a login for an email with no active account and a login with a wrong
\* password on an existing, unlocked account get the identical rejection
\* (same status, same message)
C8_SameRejection ==
  \A e1 \in Emails, e2 \in Emails, p1 \in Passwords, p2 \in Passwords :
    (/\ ActiveByEmail(e1) = {}
     /\ ActiveByEmail(e2) # {}
     /\ \A i \in ActiveByEmail(e2) :
          /\ ~(users[i].lockUntil # Null /\ users[i].lockUntil > now)
          /\ users[i].password # Bcrypt(p2))
      => LoginResult(e1, p1, now) = LoginResult(e2, p2, now)

\* C11: no two stored accounts, active or not, share an email or a username,
\* and a signup that collides with a stored account - at the lookup or, after
\* a race, at the insert - is answered 409 and creates no account
C11_UniqueAccounts ==
  /\ [](\A i \in Ids, j \in Ids :
          (i # j /\ users[i].exists /\ users[j].exists)
            => /\ users[i].email # users[j].email
               /\ users[i].username = 0 \/ users[i].username # users[j].username)
  /\ [][/\ \A r \in inflight :
             (/\ SignupCreate(r)
              /\ \E i \in Ids : /\ users[i].exists
                                 /\ \/ users[i].email = r.email
                                    \/ r.username # 0 /\ users[i].username = r.username)
               => resp'.status = 409 /\ users' = users /\ sessions' = sessions
        /\ \A c \in Clients, e \in Emails, un \in Usernames, p \in Passwords :
             (/\ Signup(c, e, un, p)
              /\ resp'.status # 429
              /\ \E i \in Ids : /\ users[i].exists
                                 /\ \/ users[i].email = e
                                    \/ un # 0 /\ users[i].username = un)
               => resp'.status = 409 /\ users' = users /\ sessions' = sessions]_vars

\* two signups raced: the loser passed the lookup and was refused at the insert
\* on the username index, while two accounts with different emails are stored
C11_Witness ==
  /\ resp.op = "signup" /\ resp.status = 409
  /\ resp.message = MsgUsernameDuplicateKey
  /\ \E i \in Ids : users[i].exists /\ users[i].username = 1 /\ users[i].email # resp.email

\* the policy as the specification words it: eight characters or more, with
\* a lower-case letter, an upper-case letter, a digit and a symbol of any kind
PolicyAsSpecified(b) ==
  /\ Len(b) >= MinPasswordLen
  /\ Has(b, "lower") /\ Has(b, "upper") /\ Has(b, "digit")
  /\ Has(b, "listed") \/ Has(b, "other")

\* C12: signup, reset-password and update-password refuse a new password with
\* the validation error, before the store is touched, exactly when it has
\* fewer than 8 characters or lacks an upper-case letter, a lower-case
\* letter, a digit or a symbol (any symbol, in any position)
C12_PasswordPolicy ==
  [][/\ \A c \in Clients, e \in Emails, b \in Bodies :
          (ValidatedSignup(c, e, b) /\ resp'.status # 429)
            => /\ (resp'.message = MsgValidationFailed) <=> ~PolicyAsSpecified(b)
               /\ ~PolicyAsSpecified(b) => users' = users
     /\ \A tok \in Tokens, b \in Bodies :
          ValidatedResetPassword(tok, b)
            => /\ (resp'.message = MsgValidationFailed) <=> ~PolicyAsSpecified(b)
               /\ ~PolicyAsSpecified(b) => users' = users
     /\ \A s \in sessions, cur \in KnownBodies, b \in Bodies :
          (ValidatedUpdatePassword(s, cur, b) /\ Protect(s, now) = "ok")
            => /\ (resp'.message = MsgValidationFailed) <=> ~PolicyAsSpecified(b)
               /\ ~PolicyAsSpecified(b) => users' = users]_vars

\* requests of a class already counted for a client in the window that is open
CountedInWindow(class, c) ==
  IF resetAt[class][c] # Null /\ now < resetAt[class][c] THEN hits[class][c] ELSE 0

\* what one request of a class does to the limiter, and whether it is let through
LimiterStep(class, c, max, window) ==
  /\ hits'[class][c] = CountedInWindow(class, c) + 1
  /\ resetAt'[class][c] =
       IF resetAt[class][c] # Null /\ now < resetAt[class][c]
         THEN resetAt[class][c] ELSE now + window
  /\ (resp'.status = 429) <=> (CountedInWindow(class, c) >= max)
  /\ CountedInWindow(class, c) >= max => users' = users /\ sessions' = sessions /\ mail' = mail

C14_ClosureSucceeds ==
  [][\A s \in sessions, p \in Passwords :
       (/\ DeleteAccount(s, p)
        /\ Protect(s, now) = "ok"
        /\ users[s.sub].password = Bcrypt(p))
         => /\ resp'.status = 200
            /\ users'[s.sub].exists /\ ~users'[s.sub].isActive
            /\ \A i \in Ids :
                 users'[i].exists
                   => /\ users'[i].email # users[s.sub].email
                      /\ users[s.sub].username = 0
                           \/ users'[i].username # users[s.sub].username]_vars

\* what a password-change request of an authenticated user must do
PasswordChangeContract(s, cur, p) ==
  IF users[s.sub].password = Bcrypt(cur)
    THEN /\ resp'.status = 200
         /\ users'[s.sub].password = Bcrypt(p)
    ELSE /\ resp'.status \in {400, 401}
         /\ users'[s.sub].password = users[s.sub].password
         /\ users'[s.sub].passwordChangedAt = users[s.sub].passwordChangedAt

\* C15: on PATCH /update-password and on PUT /change-password an authenticated
\* user whose currentPassword does not match is refused and the stored hash
\* and passwordChangedAt stay; when it matches the request succeeds and the
\* stored hash is that of the new password
C15_PasswordChange ==
  [][\A s \in sessions, cur \in Passwords, p \in Passwords :
       /\ (UpdatePassword(s, cur, p) /\ Protect(s, now) = "ok")
            => PasswordChangeContract(s, cur, p)
       /\ (ChangePassword(s, cur, p) /\ Protect(s, now) = "ok")
            => PasswordChangeContract(s, cur, p)]_vars

\* C16: logout changes no field of any account, and every session token that
\* protect accepts before the logout is accepted after it
C16_LogoutChangesNothing ==
  [][Logout => /\ users' = users
               /\ \A s \in sessions :
                    Protect(s, now) = "ok" => (s \in sessions /\ Protect(s, now) = "ok")']_vars

\* a logout has been answered while a client holds a token of an active
\* account that protect accepts
C16_Witness ==
  /\ resp.op = "logout" /\ resp.status = 200
  /\ \E s \in sessions : Protect(s, now) = "ok"

C18_AdminOnly ==
  [][\A s \in sessions :
       (\/ ListUsers(s)
        \/ \E id \in Ids : GetUser(s, id)
        \/ \E id \in Ids, role \in {"user", "admin"} : SetRole(s, id, role))
         => /\ resp'.status \in {200, 404} => users[s.sub].role = "admin"
            /\ (Protect(s, now) = "ok" /\ users[s.sub].role # "admin")
                 => resp'.status = 403 /\ users' = users
            /\ (Protect(s, now) = "ok" /\ users[s.sub].role = "admin")
                 => resp'.status \in {200, 404}]_vars

\* a token issued to an admin was refused with 403 after the account had been
\* demoted
C18_Witness ==
  /\ resp.op \in {"listUsers", "getUser", "setRole"}
  /\ resp.status = 403
  /\ resp.token.role = "admin"
  /\ users[resp.token.sub].role = "user"

\* C19: a failed attempt on an account whose lock has elapsed (now >=
\* lockUntil) leaves loginAttempts = 1 and no lock; any other failed attempt
\* adds exactly one, and sets lockUntil = now + 2 hours exactly when the new
\* count is 5
C19_FailedAttemptTransition ==
  [][\A c \in Clients, e \in Emails, p \in Passwords :
       (/\ Login(c, e, p)
        /\ resp'.status = 401 /\ resp'.message = MsgInvalidCredentials)
         => LET i == OwnerOf(e)
                u == users[i]
            IN IF u.lockUntil # Null /\ now >= u.lockUntil
                 THEN users'[i].loginAttempts = 1 /\ users'[i].lockUntil = Null
                 ELSE /\ users'[i].loginAttempts = u.loginAttempts + 1
                      /\ users'[i].lockUntil =
                           IF u.loginAttempts + 1 = LockThreshold
                             THEN now + LockTime ELSE u.lockUntil]_vars

\* C20: when a login has succeeded and its request has completed, the account
\* has loginAttempts = 0 and no lockUntil, also when failed logins on the
\* same account wrote to the store between its read and its own write
C20_SuccessClearsAttempts ==
  [][/\ \A r \in inflight :
          (LoginFinish(r) /\ resp'.status = 200)
            => users'[r.id].loginAttempts = 0 /\ users'[r.id].lockUntil = Null
     /\ \A c \in Clients, e \in Emails, p \in Passwords :
          (Login(c, e, p) /\ resp'.status = 200)
            => users'[OwnerOf(e)].loginAttempts = 0 /\ users'[OwnerOf(e)].lockUntil = Null]_vars

\* C21: a login on an account whose lockUntil is in the future is answered
\* as locked whatever the password, and leaves loginAttempts, lockUntil and
\* lastLoginAt (every field of every account) as they were
C21_LockedLoginChangesNothing ==
  [][\A c \in Clients, e \in Emails, p \in Passwords :
       (/\ Login(c, e, p)
        /\ resp'.status # 429
        /\ ActiveByEmail(e) # {}
        /\ users[OwnerOf(e)].lockUntil # Null
        /\ now < users[OwnerOf(e)].lockUntil)
         => /\ resp'.status = 401 /\ resp'.message = MsgLocked
            /\ resp'.token = NoSession
            /\ users' = users /\ sessions' = sessions]_vars

\* a login with a wrong password was answered as locked, during the lock
C21_Witness ==
  /\ resp.op = "login" /\ resp.message = MsgLocked
  /\ ActiveByEmail(resp.email) # {}
  /\ users[OwnerOf(resp.email)].password # Bcrypt(resp.password)
  /\ users[OwnerOf(resp.email)].lockUntil # Null
  /\ now < users[OwnerOf(resp.email)].lockUntil

\* C22: in every state, also between the read and the update of overlapping
\* logins, an account carries a lockUntil only if its loginAttempts is at
\* least five; an account with fewer than five has no lock
C22_LockOnlyAtThreshold ==
  \A i \in Ids :
    (users[i].exists /\ users[i].lockUntil # Null)
      => users[i].loginAttempts >= LockThreshold

\* C23: of the reset-password requests that present one token, whatever the
\* order of their lookups and saves, at most one sets a password and gets a
\* session token: no request succeeds with a token that has already been
\* consumed by another
C23_AtMostOneResetSucceeds ==
  [][\A r \in inflight :
       (ResetSave(r) /\ resp'.status = 200) => ~mail[r.token].used]_vars

\* C26: once an account is deactivated, no step authenticates as it: protect
\* rejects each of its session tokens, no reply carries a session token for
\* it, no new session for it appears, and the account is never written again
\* (no reset token issued, no reset or verification token consumed, no login
\* bookkeeping)
C26_ClosedNeverAuthenticates ==
  [][\A i \in Ids :
       (users[i].exists /\ ~users[i].isActive)
         => /\ users'[i] = users[i]
            /\ \A s \in sessions' \ sessions : s.sub # i
            /\ resp'.status = 200 => resp'.token.sub # i
            /\ \A s \in sessions :
                 (s.sub = i /\ GetMe(s)) => resp'.status = 401]_vars

\* a login with a closed account's stored email and its right password was
\* turned away
C26_Witness ==
  /\ resp.op = "login" /\ resp.status = 401
  /\ \E i \in Ids : /\ users[i].exists /\ ~users[i].isActive
                     /\ users[i].email = resp.email
                     /\ users[i].password = Bcrypt(resp.password)
                     /\ users[i].passwordResetToken # Null

\* milliseconds between the save of the password and the signing of the token
IssueDelays == {0, 1, 499, 500, 999, 1000, 1001}

\* the token of the last reply passes protect
ReplyTokenAccepted == Protect(resp.token, now) = "ok"

\* C27: the session token in the reply of a successful reset-password or
\* update-password passes protect on the next request, and however long after
\* the save the token is signed, its iat is not earlier than the
\* passwordChangedAt that save recorded
C27_FreshTokenAccepted ==
  [][/\ \A tok \in Tokens, p \in Passwords :
          (ResetPassword(tok, p) /\ resp'.status = 200) => ReplyTokenAccepted'
     /\ \A s \in sessions, cur \in Passwords, p \in Passwords :
          (UpdatePassword(s, cur, p) /\ resp'.status = 200) => ReplyTokenAccepted'
     /\ \A i \in Ids, p \in Passwords, d \in IssueDelays :
          users[i].exists
            => ~ChangedPasswordAfter(HashPasswordOnSave(users[i], p, now),
                                     GenerateAuthToken(i, now + d).iat)]_vars

\* both kinds of password change have answered with a token, one of them
\* away from a whole second
C27_Witness ==
  /\ resp.op = "update" /\ resp.status = 200 /\ now % 1000 # 0
  /\ \E tok \in Tokens : mail[tok].kind = "reset" /\ mail[tok].used

\* C28: an account is marked verified only if a verification token that was
\* issued for the email it has now has been consumed
C28_VerifiedOnlyForCurrentEmail ==
  \A i \in Ids :
    (users[i].exists /\ users[i].isActive /\ users[i].isEmailVerified)
      => \E tok \in Tokens : /\ mail[tok].kind = "verify" /\ mail[tok].used
                             /\ mail[tok].to = i
                             /\ mail[tok].email = users[i].email

\* C24: PUT /:id, DELETE /:id and PATCH /:id/complete of the airdrop routes,
\* called without a valid session or with the session of an account that does
\* not own the airdrop, leave every airdrop as it was
C24_OnlyOwnerModifies ==
  [][\A s \in Callers, a \in AirdropIds :
       (/\ \/ \E b \in AirdropBodies : UpdateAirdrop(s, a, b)
           \/ DeleteAirdrop(s, a)
           \/ CompleteAirdrop(s, a)
        /\ ~(Authenticated(s) /\ airdrops[a].user = s.sub))
         => airdrops' = airdrops]_vars

\* C25: once DELETE /airdrops/:id has succeeded, no task of the account that
\* deleted the airdrop refers to it, also when the account was creating a
\* task for that airdrop while the delete ran
C25_NoTaskOfDeletedAirdrop ==
  \A a \in AirdropIds, t \in TaskIds :
    (airdrops[a].life = "gone" /\ tasks[t].life = "live")
      => ~(tasks[t].airdrop = a /\ tasks[t].user = airdrops[a].user)

\* C29: a stored task is completed exactly if its completedAt is set
C29_CompletedIffCompletedAt ==
  \A t \in TaskIds :
    tasks[t].life = "live" => (tasks[t].completed <=> tasks[t].completedAt # Null)

\* C30: a record is created with the authenticated caller as its user, and
\* no request changes the user of a stored airdrop or task
C30_OwnerNeverChanges ==
  [][/\ \A a \in AirdropIds :
          /\ (airdrops[a].life = "live" /\ airdrops'[a].life = "live")
                => airdrops'[a].user = airdrops[a].user
          /\ (airdrops[a].life = "free" /\ airdrops'[a].life = "live")
                => airdrops'[a].user = resp'.token.sub
     /\ \A t \in TaskIds :
          /\ (tasks[t].life = "live" /\ tasks'[t].life = "live")
                => tasks'[t].user = tasks[t].user
          /\ (tasks[t].life = "free" /\ tasks'[t].life = "live")
                => tasks'[t].user = resp'.token.sub]_vars

====
